---- MODULE Spec2Model ----
(***************************************************************************)
(* A model of the notebook XDMoD-Data-Machine-Learning-Example.ipynb.      *)
(*                                                                         *)
(* The notebook is a sequence of cells run by one kernel.  Five parts of   *)
(* it are modelled, each under its own specification:                      *)
(*   SpecEnv   the environment-file bootstrap cell and the token edit;     *)
(*   Spec      the kernel running the cells: the `with dw:` runtime        *)
(*             contexts, the warehouse calls and the local steps;          *)
(*   SpecPrep  the data preparation: the notna() filters and the cast;     *)
(*   SpecSplit the train/test split;                                       *)
(*   SpecImp   the feature-importance table.                               *)
(* A specification leaves the variables of the other parts unchanged.      *)
(***************************************************************************)
EXTENDS Integers, Sequences, FiniteSets, TLC

VARIABLES
    \* --- environment file (cell at lines 145-154) ---
    xdmod_data_env_file,  \* the file ~/xdmod-data.env: [exists, mode, content]
    umask,                \* the process's file-creation mask
    bootResult,           \* how the last run of the bootstrap cell ended
    bootRuns,             \* how many times the bootstrap cell has run
    \* --- kernel and runtime contexts ---
    pc,                   \* where the kernel is inside the running cell
    cell,                 \* the cell being run ("none" between cells)
    dw,                   \* the DataWarehouse's session: "closed" or "open"
    exc,                  \* the exception in flight ("none" if none)
    got,                  \* rows received so far by the running get_raw_data
    total,                \* rows the server holds for the running query
    data,                 \* the notebook variable `data`
    defined,              \* the pipeline results that are bound
    last,                 \* the last statement the kernel ran
    outcome,              \* how the last cell ended
    \* --- data preparation ---
    tbl,                  \* `data` as a table of cells
    prepLast,             \* the last preparation statement run
    prepRuns,             \* how many times the prepare cell has been started
    \* --- train/test split ---
    X, y,                 \* the feature matrix and the target, as index + values
    X_train, X_test, y_train, y_test,
    splitResult,          \* how the last run of the split ended
    \* --- feature importances ---
    importances, indices, names, md, impPc

envVars   == <<xdmod_data_env_file, umask, bootResult, bootRuns>>
nbVars    == <<pc, cell, dw, exc, got, total, data, defined, last, outcome>>
prepVars  == <<tbl, prepLast, prepRuns>>
splitVars == <<X, y, X_train, X_test, y_train, y_test, splitResult>>
impVars   == <<importances, indices, names, md, impPc>>
vars      == <<envVars, nbVars, prepVars, splitVars, impVars>>

\* What the actions of one part leave alone.
notEnv   == <<nbVars, prepVars, splitVars, impVars>>
notNb    == <<envVars, prepVars, splitVars, impVars>>
notPrep  == <<envVars, nbVars, splitVars, impVars>>
notSplit == <<envVars, nbVars, prepVars, impVars>>
notImp   == <<envVars, nbVars, prepVars, splitVars>>

\* What a notebook variable holds before its first assignment.
Unbound == [unbound |-> TRUE]

(***************************************************************************)
(* The environment file.                                                   *)
(***************************************************************************)

\* Permission bits of a regular file (the execute bits play no part).
Perms == {"ur", "uw", "gr", "gw", "or", "ow"}

\* 0o600: only the owning user may read and write.
Mode0600 == {"ur", "uw"}

\* 0o666: the mode open(path, 'w') asks for when it creates a file.
Mode0666 == Perms

\* The empty-token placeholder.
Placeholder == "XDMOD_API_TOKEN="

\* Tokens a user may paste after the key.
Tokens == {"tokA", "tokB"}

TokenLine(t) == IF t = "tokA" THEN "XDMOD_API_TOKEN=tokA" ELSE "XDMOD_API_TOKEN=tokB"

\* Contents an already present file may have.
Contents == {Placeholder, "", TokenLine("tokA"), TokenLine("tokB")}

Umasks == { {}, {"gw", "ow"}, {"gr", "gw", "or", "ow"} }

Absent == [exists |-> FALSE, mode |-> {}, content |-> ""]

EnvFiles == {Absent} \cup [exists : {TRUE}, mode : SUBSET Perms, content : Contents]

\* open(path): FileNotFoundError if absent, PermissionError if the owner may not read.
OpenForRead(f) ==
    IF ~f.exists THEN "FileNotFoundError"
    ELSE IF "ur" \notin f.mode THEN "PermissionError"
    ELSE "ok"

\* open(path, 'w') on an absent file, then write(text): created with 0666 & ~umask.
CreateAndWrite(f, um, text) ==
    [exists |-> TRUE, mode |-> Mode0666 \ um, content |-> text]

\* Path.chmod(mode)
Chmod(f, m) == [f EXCEPT !.mode = m]

\* A bootstrap that writes the placeholder whether or not the file exists.
FileAfterBootstrap_AlwaysWrite(f, um) ==
    Chmod(CreateAndWrite(f, um, Placeholder), Mode0600)

\* The file after the bootstrap cell: try open; except FileNotFoundError: write, chmod.
FileAfterBootstrap(f, um) ==
    IF OpenForRead(f) = "FileNotFoundError"
    THEN Chmod(CreateAndWrite(f, um, Placeholder), Mode0600)
    ELSE f

\* How the bootstrap cell ends: only FileNotFoundError is caught.
BootstrapResult(f) ==
    CASE OpenForRead(f) = "FileNotFoundError" -> "created"
      [] OpenForRead(f) = "PermissionError"   -> "PermissionError"
      [] OTHER                                -> "kept"

MaxBootRuns == 2

Bootstrap ==
    /\ bootRuns < MaxBootRuns
    /\ xdmod_data_env_file' = FileAfterBootstrap(xdmod_data_env_file, umask)
    /\ bootResult' = BootstrapResult(xdmod_data_env_file)
    /\ bootRuns' = bootRuns + 1
    /\ UNCHANGED umask
    /\ UNCHANGED notEnv

\* "Open the xdmod-data.env file and paste your token after XDMOD_API_TOKEN=. Save."
StoreToken(t) ==
    /\ xdmod_data_env_file.exists
    /\ "uw" \in xdmod_data_env_file.mode
    /\ xdmod_data_env_file.content = Placeholder
    /\ xdmod_data_env_file' = [xdmod_data_env_file EXCEPT !.content = TokenLine(t)]
    /\ bootResult' = "none"
    /\ UNCHANGED <<umask, bootRuns>>
    /\ UNCHANGED notEnv

InitEnv ==
    /\ xdmod_data_env_file \in EnvFiles
    /\ umask \in Umasks
    /\ bootResult = "none"
    /\ bootRuns = 0

IdleEnv ==
    /\ xdmod_data_env_file = Absent
    /\ umask = {}
    /\ bootResult = "none"
    /\ bootRuns = 0

NextEnv ==
    \/ Bootstrap
    \/ \E t \in Tokens : StoreToken(t)
(***************************************************************************)
(* The kernel: cells, runtime contexts, warehouse calls, local steps.      *)
(***************************************************************************)

\* Bound on the rows a query matches on the server.
MaxRows == 2

\* The cells that call get_raw_data inside `with dw:` and bind `data`.
RawCells == {"raw_example", "raw_one_day", "raw_filters"}

\* The cells that call a companion lookup inside `with dw:` and display the
\* result after the block.  The variable each binds is read only by the
\* display statement of the same cell, so the bindings are not kept as state.
LookupCells == {"durations", "raw_realms", "raw_fields", "dimensions", "filter_values"}

\* The template cell: `with dw: pass` followed by `pass`.
TemplateCells == {"template"}

WithCells == RawCells \cup LookupCells \cup TemplateCells

\* The cells without a runtime context: purely local processing.
LocalCells == {"inspect", "prepare", "cast", "split", "fit",
               "importances", "predict", "r2", "plot"}

\* The statement that follows the `with` block in the same cell, if any.
PostStep(c) ==
    CASE c = "durations"      -> "display"
      [] c \in LookupCells    -> "display_df_md_table"
      [] c \in TemplateCells  -> "pass"
      [] OTHER                -> "none"

\* The statements that are local processing (no warehouse call).
LocalSteps == LocalCells \cup {"display", "display_df_md_table", "pass"}

\* The failures of a warehouse call, and the interruption of the kernel.
CallErrors == {"AuthenticationError", "InvalidArgument", "ConnectivityLoss"}
Interrupt  == "KeyboardInterrupt"

\* The errors a call can raise at a given point: authentication and argument
\* resolution fail before any row is sent, connectivity can be lost anywhere.
ErrorsAt(p) == IF p = "body" THEN CallErrors ELSE {"ConnectivityLoss"}

\* A complete Result Table of query q with n rows.
RawTable(q, n) == [query |-> q, rows |-> n, stage |-> "raw"]

\* The session after __enter__ and after __exit__.
SessionAfterEnter == "open"

\* A context manager that cleans up only when the block ends normally.
SessionAfterExit_OnlyOnSuccess(s, e) == IF e = "none" THEN "closed" ELSE s

\* __exit__ runs on every way out of the block, with or without an exception.
SessionAfterExit(s, e) == "closed"

\* A call that hands back the rows received so far when it fails.
DataAfterRaise_Partial(d, q, n) == RawTable(q, n)

\* `data = dw.get_raw_data(...)`: when the call raises, the assignment is not
\* executed; q and n are the query and the rows received so far.
DataAfterRaise(d, q, n) == d

\* The statement after the block indented into the block.
LocalStepEnabled_InBlock(p) == p \in {"post", "exit"}

\* A local step may run only once the kernel has left the `with` block.
LocalStepEnabled(p) == p = "post"

\* `with dw:` -- __enter__
WithEnter(c) ==
    /\ pc = "idle"
    /\ c \in WithCells
    /\ cell' = c
    /\ dw' = SessionAfterEnter
    /\ pc' = "body"
    /\ exc' = "none"
    /\ last' = "enter"
    /\ outcome' = "running"
    /\ UNCHANGED <<got, total, data, defined>>
    /\ UNCHANGED notNb

\* `pass` inside the block of the template cell.
BodyPass ==
    /\ pc = "body"
    /\ cell \in TemplateCells
    /\ pc' = "exit"
    /\ last' = "body_pass"
    /\ UNCHANGED <<cell, dw, exc, got, total, data, defined, outcome>>
    /\ UNCHANGED notNb

\* A companion lookup returns and its result is assigned.
LookupReturn ==
    /\ pc = "body"
    /\ cell \in LookupCells
    /\ pc' = "exit"
    /\ last' = "assign"
    /\ UNCHANGED <<cell, dw, exc, got, total, data, defined, outcome>>
    /\ UNCHANGED notNb

\* get_raw_data resolves the query and learns how many rows match.
FetchStart(n) ==
    /\ pc = "body"
    /\ cell \in RawCells
    /\ pc' = "fetching"
    /\ total' = n
    /\ got' = 0
    /\ last' = "call"
    /\ UNCHANGED <<cell, dw, exc, data, defined, outcome>>
    /\ UNCHANGED notNb

\* One more batch of rows arrives (show_progress prints the count so far).
FetchPage(k) ==
    /\ pc = "fetching"
    /\ got < total
    /\ k \in (got + 1)..total
    /\ got' = k
    /\ last' = "page"
    /\ UNCHANGED <<pc, cell, dw, exc, total, data, defined, outcome>>
    /\ UNCHANGED notNb

\* All rows are in: get_raw_data returns the table and `data` is bound to it.
FetchReturn ==
    /\ pc = "fetching"
    /\ got = total
    /\ data' = RawTable(cell, total)
    /\ pc' = "exit"
    /\ last' = "assign"
    /\ UNCHANGED <<cell, dw, exc, got, total, defined, outcome>>
    /\ UNCHANGED notNb

\* A warehouse call raises, or the kernel is interrupted inside the block.
Raise(e) ==
    /\ \/ pc = "body" /\ cell \in RawCells \cup LookupCells /\ e \in ErrorsAt("body")
       \/ pc = "fetching" /\ e \in ErrorsAt("fetching")
       \/ pc \in {"body", "fetching"} /\ e = Interrupt
    /\ exc' = e
    /\ data' = DataAfterRaise(data, cell, IF pc = "fetching" THEN got ELSE 0)
    /\ pc' = "exit"
    /\ last' = "raise"
    /\ UNCHANGED <<cell, dw, got, total, defined, outcome>>
    /\ UNCHANGED notNb

\* The block is left: __exit__ runs, then a pending exception ends the cell.
WithExit ==
    /\ pc = "exit"
    /\ dw' = SessionAfterExit(dw, exc)
    /\ last' = "exit"
    /\ exc' = "none"
    /\ IF exc # "none"
       THEN pc' = "idle" /\ cell' = "none" /\ outcome' = exc
       ELSE IF PostStep(cell) # "none"
            THEN pc' = "post" /\ UNCHANGED <<cell, outcome>>
            ELSE pc' = "idle" /\ cell' = "none" /\ outcome' = "ok"
    /\ UNCHANGED <<got, total, data, defined>>
    /\ UNCHANGED notNb

\* The statement after the block in the same cell.
RunPostStep ==
    /\ LocalStepEnabled(pc)
    /\ cell \in WithCells
    /\ PostStep(cell) # "none"
    /\ last' = PostStep(cell)
    /\ pc' = "idle"
    /\ cell' = "none"
    /\ outcome' = "ok"
    /\ UNCHANGED <<dw, exc, got, total, data, defined>>
    /\ UNCHANGED notNb

\* What a local cell needs to be bound already.
Needs(c) ==
    CASE c \in {"inspect", "prepare", "cast", "split"} -> "data"
      [] c = "fit"                                     -> "split"
      [] c \in {"importances", "predict"}              -> "fit"
      [] OTHER                                         -> "predict"

IsBound(v) == IF v = "data" THEN data # Unbound ELSE v \in defined

\* A local cell run from start to end.
RunLocal(c) ==
    /\ pc = "idle"
    /\ c \in LocalCells
    /\ last' = c
    /\ IF ~IsBound(Needs(c))
       THEN outcome' = "NameError" /\ UNCHANGED <<data, defined>>
       ELSE CASE c = "prepare" ->
                   /\ \E n \in 0..data.rows :
                        data' = [data EXCEPT !.rows = n, !.stage = "filtered"]
                   /\ outcome' = "ok"
                   /\ UNCHANGED defined
              [] c = "cast" ->
                   /\ data' = [data EXCEPT !.stage = "float64"]
                   /\ outcome' = "ok"
                   /\ UNCHANGED defined
              [] c = "split" ->
                   /\ IF data.rows < 2
                      THEN outcome' = "ValueError" /\ UNCHANGED defined
                      ELSE outcome' = "ok" /\ defined' = defined \cup {"split"}
                   /\ UNCHANGED data
              [] c \in {"fit", "predict"} ->
                   /\ defined' = defined \cup {c}
                   /\ outcome' = "ok"
                   /\ UNCHANGED data
              [] OTHER ->
                   /\ outcome' = "ok"
                   /\ UNCHANGED <<data, defined>>
    /\ UNCHANGED <<pc, cell, dw, exc, got, total>>
    /\ UNCHANGED notNb

InitNb ==
    /\ pc = "idle"
    /\ cell = "none"
    /\ dw = "closed"
    /\ exc = "none"
    /\ got = 0
    /\ total = 0
    /\ data = Unbound
    /\ defined = {}
    /\ last = "none"
    /\ outcome = "none"

NextNb ==
    \/ \E c \in WithCells : WithEnter(c)
    \/ BodyPass
    \/ LookupReturn
    \/ \E n \in 0..MaxRows : FetchStart(n)
    \/ \E k \in 1..MaxRows : FetchPage(k)
    \/ FetchReturn
    \/ \E e \in CallErrors \cup {Interrupt} : Raise(e)
    \/ WithExit
    \/ RunPostStep
    \/ \E c \in LocalCells : RunLocal(c)
(***************************************************************************)
(* Data preparation: a table as pandas holds it, an index of row labels    *)
(* and one sequence of cells per column.                                   *)
(***************************************************************************)

\* Bounds: rows of a fetched table, runs of the prepare cell.
MaxTblRows == 3
MaxPrepRuns == 2

\* Fields of the query at lines 239-246 ('Mount point "home" data written' and
\* 'Mount point "scratch" data written' are written without the inner quotes).
\* The fields 'Nodes', 'Wall Time', 'Wait Time', 'Requested Wall Time' and
\* 'Total memory used' are treated alike by every step, so one stands for them.
CPU_User == "CPU User"
Nodes    == "Nodes"
Home     == "Mount point home data written"
Scratch  == "Mount point scratch data written"
Fields   == {CPU_User, Nodes, Home, Scratch}

\* A cell: <NA>, a numeral as the warehouse sends it (num/den, den 1 or 10),
\* and after the cast NaN or a double.  exact = FALSE marks the double nearest
\* to num/den when num/den itself is no double.
NA       == [kind |-> "NA",  num |-> 0, den |-> 1, exact |-> TRUE]
NaN      == [kind |-> "nan", num |-> 0, den |-> 1, exact |-> TRUE]
Str(n, d) == [kind |-> "str", num |-> n, den |-> d, exact |-> TRUE]

RECURSIVE Gcd(_, _)
Gcd(a, b) == IF b = 0 THEN a ELSE Gcd(b, a % b)

IsPow2(n) == n \in {1, 2, 4, 8, 16}

\* num/den is a 64-bit double iff its reduced denominator is a power of two
\* (the numerators of the model are far below 2^53).
Representable(n, d) == IsPow2(d \div Gcd(d, IF n < 0 THEN -n ELSE n))

\* float(numeral): the value itself when representable, else the nearest double.
ParseFloat(c) ==
    LET g == Gcd(c.den, IF c.num < 0 THEN -c.num ELSE c.num) IN
    IF Representable(c.num, c.den)
    THEN [kind |-> "f64", num |-> c.num \div g, den |-> c.den \div g, exact |-> TRUE]
    ELSE [kind |-> "f64", num |-> c.num, den |-> c.den, exact |-> FALSE]

\* A cast that fills missing cells with zero.
CastCell_NAZero(c) ==
    CASE c.kind = "NA"  -> [kind |-> "f64", num |-> 0, den |-> 1, exact |-> TRUE]
      [] c.kind = "str" -> ParseFloat(c)
      [] OTHER          -> c

\* astype(np.float64) on one cell: <NA> becomes NaN, a numeral is parsed, a
\* float cell stays as it is.
CastCell(c) ==
    CASE c.kind = "NA"  -> NaN
      [] c.kind = "str" -> ParseFloat(c)
      [] OTHER          -> c

\* pandas isna(): <NA> and NaN are the missing markers.
IsNA(c) == c.kind \in {"NA", "nan"}

NRows(t) == Len(t.index)

\* data[col].notna(): a boolean mask over the positions.
NotnaMask(t, col) == [i \in 1..NRows(t) |-> ~IsNA(t.cols[col][i])]

\* The positions a mask selects, in order.
RECURSIVE Selected(_, _)
Selected(mask, i) ==
    IF i > Len(mask) THEN <<>>
    ELSE (IF mask[i] THEN <<i>> ELSE <<>>) \o Selected(mask, i + 1)

\* data[mask]: the selected rows, labels and cells carried along.
BoolIndex(t, mask) ==
    LET keep == Selected(mask, 1) IN
    [index |-> [j \in 1..Len(keep) |-> t.index[keep[j]]],
     cols  |-> [c \in DOMAIN t.cols |-> [j \in 1..Len(keep) |-> t.cols[c][keep[j]]]]]

\* dropna() in place of the filter on one column: a row with a missing cell
\* in any column is dropped.
Filter_DropAnyNA(t, col) ==
    BoolIndex(t, [i \in 1..NRows(t) |-> \A c \in DOMAIN t.cols : ~IsNA(t.cols[c][i])])

\* data[data[col].notna()]
Filter(t, col) == BoolIndex(t, NotnaMask(t, col))

\* data.astype(np.float64)
AsFloat64(t) ==
    [index |-> t.index,
     cols  |-> [c \in DOMAIN t.cols |-> [i \in 1..NRows(t) |-> CastCell(t.cols[c][i])]]]

\* The rows a fetched table may hold.
RawRows ==
    {[c \in Fields |-> CASE c = CPU_User -> cpu
                         [] c = Nodes    -> Str(1, 1)
                         [] c = Home     -> home
                         [] c = Scratch  -> scratch] :
        cpu \in {NA, Str(0, 1), Str(5, 10)},
        home \in {NA, Str(0, 1)},
        scratch \in {NA, Str(1, 10)}}

\* The fetched table of the given rows: a RangeIndex 0..n-1 and the columns.
TableOf(rows) ==
    [index |-> [i \in 1..Len(rows) |-> i - 1],
     cols  |-> [c \in Fields |-> [i \in 1..Len(rows) |-> rows[i][c]]]]

\* tbl is a fetched table: up to MaxTblRows rows, each one of RawRows.
IsFetched(t) ==
    \E n \in 0..MaxTblRows : \E rows \in [1..n -> RawRows] : t = TableOf(rows)

\* Line 295: data = data[data['CPU User'].notna()]
FilterCpu ==
    /\ prepLast # "filter_cpu"
    /\ prepRuns < MaxPrepRuns
    /\ tbl' = Filter(tbl, CPU_User)
    /\ prepLast' = "filter_cpu"
    /\ prepRuns' = prepRuns + 1
    /\ UNCHANGED notPrep

\* Line 296: data = data[data['Mount point "scratch" data written'].notna()]
FilterScratch ==
    /\ prepLast = "filter_cpu"
    /\ tbl' = Filter(tbl, Scratch)
    /\ prepLast' = "filter_scratch"
    /\ UNCHANGED prepRuns
    /\ UNCHANGED notPrep

\* Line 316: data = data.astype(np.float64)
Cast ==
    /\ prepLast # "filter_cpu"
    /\ tbl' = AsFloat64(tbl)
    /\ prepLast' = "cast"
    /\ UNCHANGED prepRuns
    /\ UNCHANGED notPrep

InitPrep ==
    /\ IsFetched(tbl)
    /\ prepLast = "none"
    /\ prepRuns = 0

IdlePrep ==
    /\ tbl = TableOf(<<>>)
    /\ prepLast = "none"
    /\ prepRuns = 0

NextPrep ==
    \/ FilterCpu
    \/ FilterScratch
    \/ Cast
(***************************************************************************)
(* The train/test split.                                                   *)
(***************************************************************************)

\* test_size=0.10, in percent.
TestSizePct == 10

\* The table the split cell is given: fetched table t, filtered and cast.
Prepared(t) == AsFloat64(Filter(Filter(t, CPU_User), Scratch))

\* data[[...]]: the listed columns of the table.
SelectColumns(t, cs) == [index |-> t.index, cols |-> [c \in cs |-> t.cols[c]]]

\* data[col]: one column as a series.
SelectSeries(t, col) == [index |-> t.index, vals |-> t.cols[col]]

\* The columns of X (lines 336-342), as far as the table of the model has them.
FeatureColumns == {Nodes, Home, Scratch}

\* int(test_size * n_samples): the test size rounded down.
NTest_Floor(n) == (n * TestSizePct) \div 100

\* n_test = ceil(test_size * n_samples)
NTest(n) == (n * TestSizePct + 99) \div 100

\* n_train = n_samples - n_test (train_size is not given)
NTrain(n) == n - NTest(n)

\* The shuffles of n positions.
Shuffles(n) ==
    {p \in [1..n -> 1..n] : \A i, j \in 1..n : p[i] = p[j] => i = j}

\* The first n_test positions of the shuffle are the test rows, the rest the
\* train rows.
TestPositions(p, n)  == [j \in 1..NTest(n) |-> p[j]]
TrainPositions(p, n) == [j \in 1..NTrain(n) |-> p[NTest(n) + j]]

\* DataFrame.iloc[pos] and Series.iloc[pos]
FrameIloc(t, pos) ==
    [index |-> [j \in 1..Len(pos) |-> t.index[pos[j]]],
     cols  |-> [c \in DOMAIN t.cols |-> [j \in 1..Len(pos) |-> t.cols[c][pos[j]]]]]

SeriesIloc(sr, pos) ==
    [index |-> [j \in 1..Len(pos) |-> sr.index[pos[j]]],
     vals  |-> [j \in 1..Len(pos) |-> sr.vals[pos[j]]]]

\* The split cell, lines 335-345: X and y are taken from data, then split.  An
\* empty train set makes train_test_split raise ValueError, and the four
\* subsets keep what they were bound to.
TrainTestSplit ==
    LET n == NRows(tbl) IN
    /\ X' = SelectColumns(tbl, FeatureColumns)
    /\ y' = SelectSeries(tbl, CPU_User)
    /\ IF NTrain(n) = 0
       THEN /\ splitResult' = "ValueError"
            /\ UNCHANGED <<X_train, X_test, y_train, y_test>>
       ELSE \E p \in Shuffles(n) :
            /\ X_train' = FrameIloc(X', TrainPositions(p, n))
            /\ X_test'  = FrameIloc(X', TestPositions(p, n))
            /\ y_train' = SeriesIloc(y', TrainPositions(p, n))
            /\ y_test'  = SeriesIloc(y', TestPositions(p, n))
            /\ splitResult' = "ok"
    /\ UNCHANGED notSplit

InitSplit ==
    /\ X = Unbound /\ y = Unbound
    /\ X_train = Unbound /\ X_test = Unbound
    /\ y_train = Unbound /\ y_test = Unbound
    /\ splitResult = "none"

NextSplit == TrainTestSplit

(***************************************************************************)
(* The feature-importance table.                                           *)
(***************************************************************************)

\* Bounds: the number of features, the largest importance (in tenths).
NumFeatures == 3
MaxImportance == 2

\* X_train.columns (lines 336-342), the first NumFeatures of them.
AllColumns == <<"Nodes", "Wall Time", "Wait Time", "Requested Wall Time",
                "Total memory used", "Mount point home data written",
                "Mount point scratch data written">>
Columns == SubSeq(AllColumns, 1, NumFeatures)

\* np.argsort(a): the orders that sort a ascending (ties in either order).
ArgSorts(a) ==
    {p \in Shuffles(Len(a)) : \A i \in 1..(Len(a) - 1) : a[p[i]] <= a[p[i + 1]]}

\* p[::-1]
Reversed(p) == [i \in 1..Len(p) |-> p[Len(p) + 1 - i]]

\* Lines 395-399: indices = np.argsort(importances)[::-1]
SortImportances ==
    /\ impPc = "start"
    /\ \E p \in ArgSorts(importances) : indices' = Reversed(p)
    /\ impPc' = "sorted"
    /\ UNCHANGED <<importances, names, md>>
    /\ UNCHANGED notImp

\* Line 401: names = [X_train.columns[i] for i in indices]
RearrangeNames ==
    /\ impPc = "sorted"
    /\ names' = [k \in 1..Len(indices) |-> Columns[indices[k]]]
    /\ impPc' = "loop"
    /\ UNCHANGED <<importances, indices, md>>
    /\ UNCHANGED notImp

\* Lines 403-404, one pass of the loop: for i in indices: a row of names[i]
\* and importances[i] is appended.
AppendRow ==
    /\ impPc = "loop"
    /\ Len(md) < Len(indices)
    /\ LET i == indices[Len(md) + 1] IN
       md' = Append(md, [name |-> names[i], importance |-> importances[i]])
    /\ UNCHANGED <<importances, indices, names, impPc>>
    /\ UNCHANGED notImp

\* Line 405: display(Markdown(md))
DisplayTable ==
    /\ impPc = "loop"
    /\ Len(md) = Len(indices)
    /\ impPc' = "done"
    /\ UNCHANGED <<importances, indices, names, md>>
    /\ UNCHANGED notImp

InitImp ==
    /\ importances \in [1..NumFeatures -> 0..MaxImportance]
    /\ indices = <<>>
    /\ names = <<>>
    /\ md = <<>>
    /\ impPc = "start"

IdleImp ==
    /\ importances = <<>>
    /\ indices = <<>>
    /\ names = <<>>
    /\ md = <<>>
    /\ impPc = "start"

NextImp ==
    \/ SortImportances
    \/ RearrangeNames
    \/ AppendRow
    \/ DisplayTable

(***************************************************************************)
(* The specifications.                                                     *)
(***************************************************************************)

Init == IdleEnv /\ InitNb /\ IdlePrep /\ InitSplit /\ IdleImp
Next == NextNb
Spec == Init /\ [][Next]_vars

InitEnvOnly == InitEnv /\ InitNb /\ IdlePrep /\ InitSplit /\ IdleImp
SpecEnv == InitEnvOnly /\ [][NextEnv]_vars

InitPrepOnly == IdleEnv /\ InitNb /\ InitPrep /\ InitSplit /\ IdleImp
SpecPrep == InitPrepOnly /\ [][NextPrep]_vars

InitSplitOnly ==
    /\ IdleEnv /\ InitNb /\ InitSplit /\ IdleImp
    /\ \E n \in 0..MaxTblRows : \E rows \in [1..n -> RawRows] :
         tbl = Prepared(TableOf(rows))
    /\ prepLast = "cast"
    /\ prepRuns = 1
SpecSplit == InitSplitOnly /\ [][NextSplit]_vars

InitImpOnly == IdleEnv /\ InitNb /\ IdlePrep /\ InitSplit /\ InitImp
SpecImp == InitImpOnly /\ [][NextImp]_vars
(***************************************************************************)
(* The claims.                                                             *)
(***************************************************************************)

\* C1: every session opened by a `with dw:` block is released when the block
\* is left, on every way out (normal return, a raised error, an interrupt):
\* whenever the kernel is outside a block, the session is closed.
C1_SessionReleased == pc \in {"idle", "post"} => dw = "closed"

\* A block was left through a lost connection, and the session is closed.
C1_Witness ==
    /\ pc = "idle" /\ last = "exit"
    /\ outcome = "ConnectivityLoss"
    /\ dw = "closed"

\* C2: a get_raw_data call binds `data` to the complete table or fails as a
\* whole: the step that raises leaves `data` as it was, and inside a block
\* `data` changes only by the assignment of all the rows of the query.
C2_AllOrNothing ==
    [][ /\ (exc = "none" /\ exc' # "none") => data' = data
        /\ pc \in {"body", "fetching", "exit"} =>
             \/ data' = data
             \/ /\ pc = "fetching" /\ cell \in RawCells
                /\ exc = "none" /\ exc' = "none"
                /\ got = total
                /\ data' = RawTable(cell, total) ]_vars

\* A fetch lost the connection with some but not all rows received, and
\* `data` is still unbound.
C2_Witness ==
    /\ pc = "exit" /\ exc = "ConnectivityLoss"
    /\ 0 < got /\ got < total
    /\ data = Unbound

\* C3: a local processing step runs only while no session is open, and inside
\* a block the kernel runs only the warehouse call and the assignment of its
\* result.
C3_LocalOutsideSession ==
    /\ last \in LocalSteps => dw = "closed"
    /\ pc \in {"body", "fetching", "exit"} =>
         last \in {"enter", "body_pass", "call", "page", "assign", "raise"}

\* The display that follows a lookup block has run, with the session closed.
C3_Witness ==
    /\ last = "display_df_md_table"
    /\ outcome = "ok"
    /\ dw = "closed"

\* C4: after the bootstrap cell completes, whatever the file was before, the
\* file exists with mode 0600.
C4_OwnerOnlyAfterBootstrap ==
    bootResult \in {"created", "kept"} =>
        /\ xdmod_data_env_file.exists
        /\ xdmod_data_env_file.mode = Mode0600

\* C5: the bootstrap writes only an absent file, and then exactly the
\* placeholder; it leaves the content of a present file as it is, and a
\* bootstrap right after a completed bootstrap changes nothing.
C5_BootstrapKeepsToken ==
    [][ bootRuns' = bootRuns + 1 =>
          /\ xdmod_data_env_file.exists =>
               /\ xdmod_data_env_file'.exists
               /\ xdmod_data_env_file'.content = xdmod_data_env_file.content
          /\ ~xdmod_data_env_file.exists =>
               /\ xdmod_data_env_file'.exists
               /\ xdmod_data_env_file'.content = Placeholder
          /\ bootResult \in {"created", "kept"} =>
               xdmod_data_env_file' = xdmod_data_env_file ]_vars

\* The bootstrap has run a second time on a file that holds a token.
C5_Witness ==
    /\ bootRuns = 2 /\ bootResult = "kept"
    /\ xdmod_data_env_file.content = TokenLine("tokA")

\* A row of a table: its label and its cells.
RowAt(t, i) == [label |-> t.index[i], cells |-> [c \in DOMAIN t.cols |-> t.cols[c][i]]]
RowsOf(t) == {RowAt(t, i) : i \in 1..NRows(t)}

\* t2 is t without the rows whose cell in col is missing: the same rows
\* otherwise, each once, unchanged and in the same order.
RemovedExactlyMissing(t, t2, col) ==
    /\ RowsOf(t2) = {r \in RowsOf(t) : ~IsNA(r.cells[col])}
    /\ Cardinality(RowsOf(t2)) = NRows(t2)
    /\ \A i, j \in 1..NRows(t2) : i < j => t2.index[i] < t2.index[j]
    /\ \A c \in DOMAIN t2.cols : Len(t2.cols[c]) = NRows(t2)

\* C6: a notna() filter on a column removes exactly the rows whose cell in
\* that column is missing and leaves the kept rows unchanged; the filter run
\* again on its own result changes nothing.
C6_FilterExact ==
    [][ /\ prepLast' = "filter_cpu" =>
             /\ RemovedExactlyMissing(tbl, tbl', CPU_User)
             /\ prepRuns >= 1 => tbl' = tbl
        /\ prepLast' = "filter_scratch" =>
             /\ RemovedExactlyMissing(tbl, tbl', Scratch)
             /\ prepRuns >= 2 => tbl' = tbl ]_vars

\* The prepare cell has run twice; rows were removed, and a kept row still
\* has its missing cell in another column.
C6_Witness ==
    /\ prepRuns = 2 /\ prepLast = "filter_scratch"
    /\ NRows(tbl) >= 1
    /\ tbl.index[1] # 0
    /\ \E i \in 1..NRows(tbl) : IsNA(tbl.cols[Home][i])

\* The positions of the cells of a table.
CellsOf(t) == (DOMAIN t.cols) \X (1..NRows(t))

IsZero(c) == ~IsNA(c) /\ c.num = 0

\* C8: the cast to float64 leaves every exactly representable value unchanged
\* and keeps the missing cells missing and the others not: a missing cell and
\* a zero cell are still a missing cell and a zero cell, where they were.
C8_CastKeepsMissing ==
    [][ prepLast' = "cast" =>
          /\ tbl'.index = tbl.index
          /\ \A c \in DOMAIN tbl.cols : Len(tbl'.cols[c]) = NRows(tbl)
          /\ \A c \in DOMAIN tbl.cols : \A i \in 1..NRows(tbl) :
               LET old == tbl.cols[c][i]
                   new == tbl'.cols[c][i]
               IN  /\ IsNA(new) <=> IsNA(old)
                   /\ IsZero(new) <=> IsZero(old)
                   /\ (~IsNA(old) /\ old.exact /\ Representable(old.num, old.den)) =>
                        /\ new.kind = "f64" /\ new.exact
                        /\ new.num * old.den = old.num * new.den ]_vars

\* A cast table with exactly one missing cell and exactly one zero cell.
C8_Witness ==
    /\ prepLast = "cast"
    /\ Cardinality({p \in CellsOf(tbl) : tbl.cols[p[1]][p[2]] = NaN}) = 1
    /\ Cardinality({p \in CellsOf(tbl) : IsZero(tbl.cols[p[1]][p[2]])}) = 1

SetOf(sq) == {sq[i] : i \in 1..Len(sq)}

\* The rows of the subset (Xs, ys) are rows of (X, y), cells and target
\* carried along, and Xs and ys hold the same rows.
SubsetOfRows(Xs, ys) ==
    /\ ys.index = Xs.index
    /\ Len(ys.vals) = Len(Xs.index)
    /\ \A j \in 1..Len(Xs.index) : \E i \in 1..NRows(X) :
         /\ X.index[i] = Xs.index[j]
         /\ \A c \in DOMAIN X.cols : Xs.cols[c][j] = X.cols[c][i]
         /\ ys.vals[j] = y.vals[i]

\* Every row of X is in exactly one of the two subsets.
SplitIsPartition ==
    /\ SubsetOfRows(X_train, y_train)
    /\ SubsetOfRows(X_test, y_test)
    /\ Len(X_train.index) + Len(X_test.index) = NRows(X)
    /\ SetOf(X_train.index) \cap SetOf(X_test.index) = {}
    /\ SetOf(X_train.index) \cup SetOf(X_test.index) = SetOf(X.index)

\* The test subset has ceil(0.10 * N) rows.
TestSizeIsCeil ==
    /\ 100 * Len(X_test.index) >= TestSizePct * NRows(X)
    /\ 100 * (Len(X_test.index) - 1) < TestSizePct * NRows(X)

\* C7 as stated: for any N rows the split puts every row in exactly one
\* subset, X and y on the same rows, and the test subset is the smaller one,
\* of the rounded size.
C7_Original ==
    splitResult # "none" =>
        /\ splitResult = "ok"
        /\ SplitIsPartition
        /\ TestSizeIsCeil
        /\ Len(X_test.index) < Len(X_train.index)

\* C7 amended: for N >= 2 rows the split puts every row in exactly one subset,
\* X and y on the same rows, and the test subset has ceil(0.10 * N) rows and is
\* never the larger one; for N < 2 the split raises ValueError and binds no
\* subset.
C7_SplitPartition ==
    /\ splitResult = "ok" =>
         /\ NRows(X) >= 2
         /\ SplitIsPartition
         /\ TestSizeIsCeil
         /\ Len(X_test.index) <= Len(X_train.index)
    /\ splitResult = "ValueError" =>
         /\ NRows(X) < 2
         /\ X_train = Unbound /\ X_test = Unbound
         /\ y_train = Unbound /\ y_test = Unbound

\* Three rows were split: one test row, two train rows.
C7_Witness ==
    /\ splitResult = "ok"
    /\ NRows(X) = 3
    /\ Len(X_test.index) = 1
    /\ Len(X_train.index) = 2

\* C10: the feature-importance table lists every feature exactly once, in
\* descending order of importance, each name with the importance of that
\* feature.
C10_TableMatches ==
    impPc = "done" =>
        /\ Len(md) = Len(Columns)
        /\ {md[k].name : k \in 1..Len(md)} = SetOf(Columns)
        /\ \A k \in 1..(Len(md) - 1) : md[k].importance >= md[k + 1].importance
        /\ \A k \in 1..Len(md) : \E f \in 1..Len(Columns) :
             /\ Columns[f] = md[k].name
             /\ importances[f] = md[k].importance
\* C11: after the prepare cell, every row left in the table has its CPU user
\* data and its filesystem data: no cell of 'CPU User', of 'Mount point "home"
\* data written' or of 'Mount point "scratch" data written' is missing.
C11_PreparedRowsComplete ==
    (prepRuns >= 1 /\ prepLast # "filter_cpu") =>
        \A i \in 1..NRows(tbl) : \A c \in {CPU_User, Home, Scratch} :
            ~IsNA(tbl.cols[c][i])
====
